---- MODULE Spec2Model ----
(***************************************************************************)
(* Manifest / spine audit of an EPUB package tree (manifest_audit.py) and   *)
(* the builder that produces such a tree (epub_fixer.py).                  *)
(*                                                                         *)
(* The state is one package tree (the files under OEBPS, the manifest      *)
(* document content.opf and what it declares), one ManifestAuditor built   *)
(* over it, the project directory the builder reads, the archive it        *)
(* writes, and one file name handed to normalize_filename.  Strings the    *)
(* code inspects character by character (hrefs, file names, ids) are       *)
(* sequences of one-character strings.                                     *)
(*                                                                         *)
(* The specifications: Spec (one audit of an arbitrary tree), SpecReaudit   *)
(* (audits repeated on one auditor), SpecBuild (the builder's steps over a  *)
(* project directory, then an audit of what it built), SpecNorm            *)
(* (normalize_filename on one name), SpecRename (the rename pass and the   *)
(* patching of references), SpecRun (run_all_fixes, repeated, the author   *)
(* changing the sources in between) and SpecCli (the three checker         *)
(* scripts run from the command line).                                     *)
(***************************************************************************)
EXTENDS Integers, Sequences, FiniteSets

VARIABLES
    root,          \* the OEBPS directory exists
    opf,           \* OEBPS/content.opf: "ok", "missing" or "unreadable"
    disk,          \* files under OEBPS, paths relative to it, content.opf itself left out
    manifest,      \* the <item> elements of content.opf, in document order
    spine,         \* the idrefs of the <itemref> elements, in document order
    issues,        \* ManifestAuditor.issues
    orphan_files,  \* the orphan list check_orphan_files printed last
    ran,           \* the checks audit() has called, in call order
    result,        \* what audit() did: "none" (not called), "true", "false", "raised"
    audits,        \* how many times audit() has been called on the auditor
    project,       \* content files at the top of the project directory: name -> content
    data,          \* content of the files the builder put under OEBPS: path -> content
    book_title,    \* the title of book-map.yaml, <<>> when it gives none
    epub,          \* curls-and-contemplation.epub: [exists, entries]
    pkg_ret,       \* what create_epub_package did last: "none", "epub_file", "None"
    history,       \* the builder operations and source edits that have run, in order
    rename_map,    \* the mapping rename_files_and_update_references returned last:
                   \* <<old_name, new_name>> pairs in insertion order
    book_files,    \* the entries of the files section of book-map.yaml: [input, output]
    fname,         \* the argument of normalize_filename
    norm,          \* its return value, NotCalled before the call
    script,        \* the checker script being run as __main__, "none" when none is
    facts,         \* what that script finds in the project it inspects
    findings,      \* the issues and warnings its checker has collected
    exit_code      \* the exit status of the script, -1 while it has not exited

tree == <<root, opf, disk, manifest, spine>>
auditor == <<issues, orphan_files, ran, result, audits>>
refs == <<rename_map, book_files>>
builder == <<project, data, book_title, epub, pkg_ret, history, rename_map, book_files>>
normalizer == <<fname, norm>>
cli == <<script, facts, findings, exit_code>>
vars == <<root, opf, disk, manifest, spine, issues, orphan_files, ran, result, audits,
          project, data, book_title, epub, pkg_ret, history, rename_map, book_files,
          fname, norm,
          script, facts, findings, exit_code>>

NoFiles == <<>>
NoArchive == [exists |-> FALSE, entries |-> <<>>]
NotCalled == <<"not called">>
\* nothing built yet
BuilderIdle ==
    /\ project = NoFiles
    /\ data = NoFiles
    /\ book_title = <<>>
    /\ epub = NoArchive
    /\ pkg_ret = "none"
    /\ history = <<>>
    /\ rename_map = <<>>
    /\ book_files = <<>>
\* normalize_filename not in play
NormalizerIdle ==
    /\ fname = <<>>
    /\ norm = NotCalled
NoFindings == [issues |-> <<>>, warnings |-> <<>>]
\* no script is run
CliIdle ==
    /\ script = "none"
    /\ facts = {}
    /\ findings = NoFindings
    /\ exit_code = -1
\* a fresh ManifestAuditor
AuditorFresh ==
    /\ issues = <<>>
    /\ orphan_files = {}
    /\ ran = <<>>
    /\ result = "none"
    /\ audits = 0

-----------------------------------------------------------------------------
(* Bounds and the universe of inputs *)

MaxSpine == 3

\* hrefs a manifest item may declare
T1  == <<"t","e","x","t","/","1","-","a">>
T2  == <<"t","e","x","t","/","2","-","b">>
T10 == <<"t","e","x","t","/","1","0","-","c">>
T9  == <<"t","e","x","t","/","9",".","x">>
TDir == <<"t","e","x","t","/">>
S1  == <<"c","s","s","/","1","-","s">>
\* a second file named content.opf, in a subdirectory
OpfCopy == <<"t","e","x","t","/","c","o","n","t","e","n","t",".","o","p","f">>

Hrefs == {T1, T2, T10, T9, TDir, S1}
\* the trees audited: the files on disk under OEBPS
Trees == {{}, {T1}, {T1, T2, T10}, {T10, OpfCopy}}
IdSeq == <<"text001", "text002", "text003">>
IdRefs == {IdSeq[i] : i \in DOMAIN IdSeq} \cup {"ghost"}
NoItem == <<>>

RECURSIVE ManifestOf(_, _)
ManifestOf(f, i) ==
    IF i > Len(IdSeq) THEN <<>>
    ELSE IF f[i] = NoItem THEN ManifestOf(f, i + 1)
    ELSE <<[id |-> IdSeq[i], href |-> f[i]]>> \o ManifestOf(f, i + 1)

Manifests == {ManifestOf(f, 1) : f \in [DOMAIN IdSeq -> Hrefs \cup {NoItem}]}
Spines == UNION {[1..n -> IdRefs] : n \in 0..MaxSpine}

-----------------------------------------------------------------------------
(* Python string and path primitives the auditor uses *)

Digits == {"0","1","2","3","4","5","6","7","8","9"}

DigitVal(c) ==
    CASE c = "0" -> 0 [] c = "1" -> 1 [] c = "2" -> 2 [] c = "3" -> 3 [] c = "4" -> 4
      [] c = "5" -> 5 [] c = "6" -> 6 [] c = "7" -> 7 [] c = "8" -> 8 [] c = "9" -> 9

isdigit(c) == c \in Digits

startswith(s, p) == Len(s) >= Len(p) /\ SubSeq(s, 1, Len(p)) = p

\* s.split(sep)[0]: the text before the first sep, all of s when it has none
RECURSIVE split_first(_, _)
split_first(s, sep) ==
    IF s = <<>> \/ Head(s) = sep THEN <<>>
    ELSE <<Head(s)>> \o split_first(Tail(s), sep)

\* s[n:] with 0-based n: never raises
slice_from(s, n) == SubSeq(s, n + 1, Len(s))

\* int(s): ok = FALSE stands for ValueError
RECURSIVE digits_value(_)
digits_value(s) ==
    IF s = <<>> THEN 0
    ELSE 10 * digits_value(SubSeq(s, 1, Len(s) - 1)) + DigitVal(s[Len(s)])

int(s) ==
    IF s # <<>> /\ \A k \in DOMAIN s : isdigit(s[k])
    THEN [ok |-> TRUE, val |-> digits_value(s)]
    ELSE [ok |-> FALSE, val |-> 0]

\* the last component of a relative path
RECURSIVE basename(_)
basename(p) ==
    IF \A k \in DOMAIN p : p[k] # "/" THEN p
    ELSE basename(Tail(p))

content_opf_name == <<"c","o","n","t","e","n","t",".","o","p","f">>

\* a path without its trailing slashes, as pathlib normalises it
RECURSIVE strip_slash(_)
strip_slash(p) ==
    IF p # <<>> /\ p[Len(p)] = "/" THEN strip_slash(SubSeq(p, 1, Len(p) - 1))
    ELSE p

\* (self.oebps_dir / href).exists(): a file of the tree, or a directory holding one
exists(href) ==
    LET p == strip_slash(href) IN
    \/ p \in disk
    \/ /\ root
       /\ \E f \in disk : startswith(f, p \o <<"/">>)

-----------------------------------------------------------------------------
(* Issues: the strings audit appends to self.issues, by their fields *)

Issue(kind, href, idref, pos, num, prev) ==
    [kind |-> kind, href |-> href, idref |-> idref, pos |-> pos, num |-> num, prev |-> prev]

Critical == Issue("critical", <<>>, "", 0, 0, 0)
MissingIssue(href) == Issue("missing", href, "", 0, 0, 0)
OrphanIssue(n) == Issue("orphans", <<>>, "", 0, n, 0)
SpineIssue(pos, idref) == Issue("spine", <<>>, idref, pos, 0, 0)
OrderIssue(href, num, prev) == Issue("order", href, "", 0, num, prev)

-----------------------------------------------------------------------------
(* ManifestAuditor *)

\* os.walk(self.oebps_dir): every file under OEBPS, the manifest document included
os_walk == disk \cup (IF opf = "missing" THEN {} ELSE {content_opf_name})

\* self.content_opf.exists()
content_opf_exists == root /\ opf # "missing"

\* etree.parse(self.content_opf) raises on a document it cannot read
parse_raises == opf # "ok"

\* a scan that stops at the first missing target
RECURSIVE check_manifest_files_first(_)
check_manifest_files_first(manifest_items) ==
    IF manifest_items = <<>> THEN <<>>
    ELSE IF ~exists(Head(manifest_items).href)
         THEN <<MissingIssue(Head(manifest_items).href)>>
         ELSE check_manifest_files_first(Tail(manifest_items))

\* check_manifest_files: the missing_files list, one entry per item whose target is absent
RECURSIVE check_manifest_files(_)
check_manifest_files(manifest_items) ==
    IF manifest_items = <<>> THEN <<>>
    ELSE (IF ~exists(Head(manifest_items).href)
          THEN <<MissingIssue(Head(manifest_items).href)>>
          ELSE <<>>) \o check_manifest_files(Tail(manifest_items))

manifest_hrefs(manifest_items) ==
    {manifest_items[k].href : k \in DOMAIN manifest_items}

\* check_orphan_files: the orphan_files list (its order is that of os.walk, kept as a set)
check_orphan_files(manifest_items) ==
    {f \in os_walk : /\ basename(f) # content_opf_name
                     /\ f \notin manifest_hrefs(manifest_items)}

\* what check_orphan_files appends to self.issues: one summary line, if any orphan
orphan_summary(orphans) ==
    IF orphans # {} THEN <<OrphanIssue(Cardinality(orphans))>> ELSE <<>>

\* the dict {id: href}: a later item with the same id replaces an earlier one
manifest_ids(manifest_items) ==
    [i \in {manifest_items[k].id : k \in DOMAIN manifest_items} |->
        LET last == CHOOSE k \in DOMAIN manifest_items :
                        /\ manifest_items[k].id = i
                        /\ \A j \in DOMAIN manifest_items :
                              manifest_items[j].id = i => j <= k
        IN manifest_items[last].href]

\* spine positions counted from 0 in the message
RECURSIVE spine_issues_zero_based(_, _, _)
spine_issues_zero_based(ids, spine_items, i) ==
    IF i > Len(spine_items) THEN <<>>
    ELSE (IF spine_items[i] \notin DOMAIN ids
          THEN <<SpineIssue(i - 1, spine_items[i])>>
          ELSE <<>>) \o spine_issues_zero_based(ids, spine_items, i + 1)

\* check_spine_integrity, first loop: spine_issues, from spine position i on
RECURSIVE spine_issues(_, _, _)
spine_issues(ids, spine_items, i) ==
    IF i > Len(spine_items) THEN <<>>
    ELSE (IF spine_items[i] \notin DOMAIN ids
          THEN <<SpineIssue(i, spine_items[i])>>
          ELSE <<>>) \o spine_issues(ids, spine_items, i + 1)

text_prefix == <<"t","e","x","t","/">>

\* the second loop without its "prev_num = file_num"
RECURSIVE reading_order_no_update(_, _, _, _, _)
reading_order_no_update(ids, spine_items, i, prev_num, acc) ==
    IF i > Len(spine_items) THEN [raised |-> FALSE, issues |-> acc]
    ELSE IF spine_items[i] \notin DOMAIN ids
         THEN reading_order_no_update(ids, spine_items, i + 1, prev_num, acc)
    ELSE LET href == ids[spine_items[i]] IN
         IF ~startswith(href, text_prefix)
         THEN reading_order_no_update(ids, spine_items, i + 1, prev_num, acc)
         ELSE IF Len(href) < 6 THEN [raised |-> TRUE, issues |-> acc]
         ELSE IF ~isdigit(href[6])
         THEN reading_order_no_update(ids, spine_items, i + 1, prev_num, acc)
         ELSE LET file_num == int(slice_from(split_first(href, "-"), 5)) IN
              IF ~file_num.ok
              THEN reading_order_no_update(ids, spine_items, i + 1, prev_num, acc)
              ELSE reading_order_no_update(ids, spine_items, i + 1, prev_num,
                       IF file_num.val < prev_num
                       THEN Append(acc, OrderIssue(href, file_num.val, prev_num))
                       ELSE acc)

\* check_spine_integrity, second loop, from spine position i on with prev_num and
\* the reading_order_issues collected so far.  href[5] is read outside the try
\* block: on an href that is exactly "text/" it raises IndexError out of audit.
RECURSIVE reading_order(_, _, _, _, _)
reading_order(ids, spine_items, i, prev_num, acc) ==
    IF i > Len(spine_items) THEN [raised |-> FALSE, issues |-> acc]
    ELSE IF spine_items[i] \notin DOMAIN ids
         THEN reading_order(ids, spine_items, i + 1, prev_num, acc)
    ELSE LET href == ids[spine_items[i]] IN
         IF ~startswith(href, text_prefix)
         THEN reading_order(ids, spine_items, i + 1, prev_num, acc)
         ELSE IF Len(href) < 6 THEN [raised |-> TRUE, issues |-> acc]
         ELSE IF ~isdigit(href[6])
         THEN reading_order(ids, spine_items, i + 1, prev_num, acc)
         ELSE LET file_num == int(slice_from(split_first(href, "-"), 5)) IN
              IF ~file_num.ok
              THEN reading_order(ids, spine_items, i + 1, prev_num, acc)
              ELSE reading_order(ids, spine_items, i + 1, file_num.val,
                       IF file_num.val < prev_num
                       THEN Append(acc, OrderIssue(href, file_num.val, prev_num))
                       ELSE acc)

\* a verdict that counts the missing-file and spine issues only
verdict_hard_only(iss) ==
    IF \A k \in DOMAIN iss : iss[k].kind \notin {"missing", "spine", "critical"}
    THEN "true" ELSE "false"

\* return len(self.issues) == 0
verdict(iss) == IF Len(iss) = 0 THEN "true" ELSE "false"

AllChecks == <<"check_manifest_files", "check_orphan_files", "check_spine_integrity">>

\* the end of audit(): self.issues after the first three extensions, the orphans
\* found and the outcome of the reading-order loop
finish_checks(iss3, orphans, order) ==
    IF order.raised
    THEN [issues |-> iss3, orphans |-> orphans, ran |-> AllChecks, result |-> "raised"]
    ELSE [issues |-> iss3 \o order.issues, orphans |-> orphans, ran |-> AllChecks,
          result |-> verdict(iss3 \o order.issues)]

\* the three checks in call order, over the parsed items and their {id: href} dict
checks(iss0, orphans, ids) ==
    finish_checks(iss0 \o check_manifest_files(manifest)
                       \o orphan_summary(orphans)
                       \o spine_issues(ids, spine, 1),
                  orphans,
                  reading_order(ids, spine, 1, 0, <<>>))

\* audit() from the parse on, self.issues being iss0 when it starts
run_checks(iss0) ==
    IF parse_raises
    THEN [issues |-> iss0, orphans |-> {}, ran |-> <<>>, result |-> "raised"]
    ELSE checks(iss0, check_orphan_files(manifest), manifest_ids(manifest))

\* audit() without the "return False" after the CRITICAL issue
audit_no_return(iss0) ==
    IF ~content_opf_exists
    THEN run_checks(Append(iss0, Critical))
    ELSE run_checks(iss0)

\* audit(), self.issues being iss0 when it starts
audit(iss0) ==
    IF ~content_opf_exists
    THEN [issues |-> Append(iss0, Critical), orphans |-> {}, ran |-> <<>>,
          result |-> "false"]
    ELSE run_checks(iss0)

-----------------------------------------------------------------------------
(* The state machine *)

\* a package tree and ManifestAuditor.__init__ over it
Init ==
    /\ root \in BOOLEAN
    /\ opf \in {"ok", "missing", "unreadable"}
    /\ disk \in Trees
    /\ manifest \in Manifests
    /\ spine \in Spines
    /\ ~root => opf = "missing" /\ disk = {}
    /\ opf # "ok" => manifest = <<>> /\ spine = <<>>
    /\ issues = <<>>
    /\ orphan_files = {}
    /\ ran = <<>>
    /\ result = "none"
    /\ audits = 0
    /\ BuilderIdle
    /\ NormalizerIdle
    /\ CliIdle

AuditCore ==
    \E out \in {audit(issues)} :
    /\ issues' = out.issues
    /\ orphan_files' = out.orphans
    /\ ran' = out.ran
    /\ result' = out.result
    /\ audits' = audits + 1

\* an audit that removes the orphans it finds
Audit_deletes_orphans ==
    /\ result = "none"
    /\ AuditCore
    /\ disk' = disk \ orphan_files'
    /\ UNCHANGED <<root, opf, manifest, spine, builder, normalizer, cli>>

\* auditor.audit(), called once on a fresh auditor as __main__ does
Audit ==
    /\ result = "none"
    /\ AuditCore
    /\ UNCHANGED <<tree, builder, normalizer, cli>>

Next == Audit

Spec == Init /\ [][Next]_vars

\* the calls of audit() made on one auditor
MaxAudits == 2

\* auditor.audit() called again on the same ManifestAuditor
AuditAgain ==
    /\ result # "none"
    /\ audits < MaxAudits
    /\ AuditCore
    /\ UNCHANGED <<tree, builder, normalizer, cli>>

NextReaudit == Audit \/ AuditAgain

SpecReaudit == Init /\ [][NextReaudit]_vars

-----------------------------------------------------------------------------
(* What the claims speak of, stated on the tree and the manifest alone *)

Range(seq) == {seq[k] : k \in DOMAIN seq}
IssuesOf(kind) == SelectSeq(issues, LAMBDA x : x.kind = kind)

Done == result # "none"
Returned == result \in {"true", "false"}
\* the manifest document was there and was parsed
Parsed == root /\ opf = "ok"

DeclaredHrefs == {manifest[k].href : k \in DOMAIN manifest}
DeclaredIds == {manifest[k].id : k \in DOMAIN manifest}
MissingItems == {k \in DOMAIN manifest : ~exists(manifest[k].href)}
Unresolved == {i \in DOMAIN spine : spine[i] \notin DeclaredIds}
\* files under the root, the manifest document OEBPS/content.opf apart, not declared
Untracked == disk \ DeclaredHrefs
\* the same without any file named content.opf, wherever it lies
UntrackedNamed == {f \in Untracked : basename(f) # content_opf_name}

\* the href a resolvable idref stands for
HrefOf(idref) == manifest[CHOOSE k \in DOMAIN manifest : manifest[k].id = idref].href

\* an href "text/<digits>-...": the ordinal is the number the digits write
OrdinalLen(href) ==
    IF /\ Len(href) > Len(text_prefix)
       /\ SubSeq(href, 1, Len(text_prefix)) = text_prefix
       /\ \E k \in 1..Len(href) : href[k] = "-"
    THEN LET dash == CHOOSE k \in 1..Len(href) :
                        href[k] = "-" /\ \A j \in 1..(k - 1) : href[j] # "-"
         IN IF /\ dash > Len(text_prefix) + 1
               /\ \A j \in (Len(text_prefix) + 1)..(dash - 1) : href[j] \in Digits
            THEN dash - 1 - Len(text_prefix)
            ELSE 0
    ELSE 0
HasOrdinal(href) == OrdinalLen(href) > 0
Ordinal(href) ==
    digits_value(SubSeq(href, Len(text_prefix) + 1, Len(text_prefix) + OrdinalLen(href)))

\* the spine positions that resolve to an item bearing an ordinal, in spine order
OrdinalPositions ==
    SelectSeq([i \in DOMAIN spine |-> i],
              LAMBDA i : spine[i] \in DeclaredIds /\ HasOrdinal(HrefOf(spine[i])))
OrdinalAt(ps, k) == Ordinal(HrefOf(spine[ps[k]]))
\* the k-th ordinal-bearing item has a smaller ordinal than the one before it
DropsIn(ps) == {k \in 2..Len(ps) : OrdinalAt(ps, k) < OrdinalAt(ps, k - 1)}
DropIssueIn(ps, k) ==
    OrderIssue(HrefOf(spine[ps[k]]), OrdinalAt(ps, k), OrdinalAt(ps, k - 1))
Drops == DropsIn(OrdinalPositions)
\* every drop is in the issue list
DropsRecorded ==
    \A k \in Drops : DropIssueIn(OrdinalPositions, k) \in Range(issues)

-----------------------------------------------------------------------------
(* The claims *)

C3_HardDefectsFailAsData ==
    (Done /\ Parsed /\ (MissingItems # {} \/ Unresolved # {}))
        => /\ result = "false"
           /\ \A k \in MissingItems : MissingIssue(manifest[k].href) \in Range(issues)
           /\ \A i \in Unresolved : SpineIssue(i, spine[i]) \in Range(issues)

\* C4: the existence check records exactly one missing-file issue per manifest item
\* whose href does not exist, naming that href, and none for an href that exists.
C4_OneMissingIssuePerAbsentTarget ==
    (Done /\ Parsed)
        => /\ Len(IssuesOf("missing")) = Cardinality(MissingItems)
           /\ \A h \in Hrefs :
                Cardinality({k \in DOMAIN issues : issues[k] = MissingIssue(h)})
                  = IF exists(h) THEN 0
                    ELSE Cardinality({k \in DOMAIN manifest : manifest[k].href = h})

\* C4: two items declare the same absent href and a third item's target exists
C4_Witness ==
    /\ Done
    /\ \E h \in Hrefs :
          Cardinality({k \in DOMAIN issues : issues[k] = MissingIssue(h)}) = 2
    /\ \E k \in DOMAIN manifest : exists(manifest[k].href)

\* C5: the orphans reported are exactly the files under the root, other than the
\* manifest document OEBPS/content.opf itself, that no manifest href declares.
C5_OrphansAreExactlyUntracked ==
    (Done /\ Parsed)
        => /\ orphan_files = Untracked
           /\ IssuesOf("orphans") = orphan_summary(Untracked)

\* C6: the spine check records a defect for a spine item iff its idref is not a
\* manifest id, one per such item, giving its position and idref.
C6_SpineDefectIffUnresolved ==
    (Done /\ Parsed)
        => /\ \A i \in DOMAIN spine :
                i \in Unresolved <=> SpineIssue(i, spine[i]) \in Range(issues)
           /\ Len(IssuesOf("spine")) = Cardinality(Unresolved)

\* C6: a spine of three whose second idref alone is unknown
C6_Witness ==
    /\ Done
    /\ Len(spine) = 3
    /\ IssuesOf("spine") = <<SpineIssue(2, "ghost")>>

\* C7: audit reports one reading-order defect for each ordinal-bearing spine item
\* whose ordinal is smaller than that of the ordinal-bearing item before it, and
\* none when the ordinals never decrease.
C7_OneDefectPerDrop ==
    (Done /\ Parsed)
        => /\ Len(IssuesOf("order")) = Cardinality(Drops)
           /\ DropsRecorded

\* C8: when the manifest document is missing or unreadable, or the root directory
\* is missing, audit calls none of the three checks, records no missing-file,
\* orphan or spine defect, and gives exactly one error: the CRITICAL issue with a
\* false verdict, or the fault raised by the parse.
C8_FatalPreconditionSingleError ==
    (Done /\ ~Parsed)
        => /\ ran = <<>>
           /\ orphan_files = {}
           /\ \A k \in DOMAIN issues : issues[k].kind = "critical"
           /\ \/ result = "false" /\ issues = <<Critical>>
              \/ result = "raised" /\ issues = <<>>

\* C8: a tree with files but no manifest document: audit stopped at the CRITICAL issue
C8_Witness ==
    /\ opf = "missing"
    /\ disk # {}
    /\ result = "false"
    /\ issues = <<Critical>>

\* C9: once the manifest is parsed all three checks run over every manifest item,
\* every file and every spine item, so the issue list holds the defects of all three.
C9_ScanNeverStops ==
    (Done /\ Parsed)
        => /\ ran = AllChecks
           /\ \A k \in MissingItems : MissingIssue(manifest[k].href) \in Range(issues)
           /\ UntrackedNamed # {}
                => OrphanIssue(Cardinality(UntrackedNamed)) \in Range(issues)
           /\ \A i \in Unresolved : SpineIssue(i, spine[i]) \in Range(issues)
           /\ DropsRecorded

\* C10: audit is read-only: the step that runs audit leaves the root, the files
\* under it and the manifest document as they were.
C10_AuditReadOnly ==
    [][(result = "none" /\ result' # "none") => UNCHANGED tree]_vars

\* C10: an audit that found orphans and declared-but-missing files has run
C10_Witness ==
    /\ Done
    /\ orphan_files # {}
    /\ MissingItems # {}

-----------------------------------------------------------------------------
(* The builder of epub_fixer.py: the project directory it reads *)

\* the builder operations and source edits of one behaviour
MaxOps == 3

\* content files at the top of the project directory
X2   == <<"2","-","b",".","x","h","t","m","l">>
X10  == <<"1","0","-","c",".","x","h","t","m","l">>
CssA == <<"a",".","c","s","s">>
CssB == <<"b",".","c","s","s">>
Woff == <<"f",".","w","o","f","f","2">>
Png  == <<"p",".","p","n","g">>
\* a name no pattern of the builder matches
Jpg  == <<"q",".","J","P","G">>
Names == {X2, X10, CssA, CssB, Woff, Png, Jpg}
\* what a file holds: as first written, or edited since
Contents == {"v1", "v2"}

\* the typed subdirectories of OEBPS, as path prefixes
text_dir   == <<"t","e","x","t","/">>
styles_dir == <<"s","t","y","l","e","s","/">>
fonts_dir  == <<"f","o","n","t","s","/">>
images_dir == <<"i","m","a","g","e","s","/">>
TypedDirs == {text_dir, styles_dir, fonts_dir, images_dir}

\* the glob patterns of the builder, each "*" followed by this suffix
xhtml_pattern == <<".","x","h","t","m","l">>
css_pattern   == <<".","c","s","s">>
woff2_pattern == <<".","w","o","f","f","2">>
image_patterns == <<<<".","j","p","g">>, <<".","j","p","e","g">>, <<".","p","n","g">>, <<".","J","P","E","G">>, <<".","P","N","G">>>>

\* str.endswith
endswith(s, suffix) ==
    Len(s) >= Len(suffix) /\ SubSeq(s, Len(s) - Len(suffix) + 1, Len(s)) = suffix

\* self.project_dir.glob("*" + suffix): the names of the project directory that match
glob(suffix) == {n \in DOMAIN project : endswith(n, suffix)}

\* (oebps_dir / sub).glob("*" + suffix) over the tree d: the names of that directory that match
glob_in(d, sub, suffix) ==
    {slice_from(p, Len(sub)) : p \in {q \in DOMAIN d : startswith(q, sub) /\ endswith(q, suffix)}}

\* the tree d after "if not dest.exists(): shutil.copy2(src, dest)" for every name of srcs,
\* dest being sub/name: copy2 writes the content of the source file
copy_if_absent(d, srcs, sub) ==
    [p \in DOMAIN d \cup {sub \o n : n \in srcs} |->
        IF p \in DOMAIN d THEN d[p] ELSE project[slice_from(p, Len(sub))]]

\* the same loop without the exists() test: copy2 replaces the destination
copy_always(d, srcs, sub) ==
    [p \in DOMAIN d \cup {sub \o n : n \in srcs} |->
        IF slice_from(p, Len(sub)) \in srcs /\ startswith(p, sub)
        THEN project[slice_from(p, Len(sub))] ELSE d[p]]

\* the same loop writing beside a destination that exists
copy_beside(d, srcs, sub) ==
    [p \in DOMAIN d \cup {sub \o n : n \in srcs}
            \cup {sub \o n \o <<"~">> : n \in {m \in srcs : sub \o m \in DOMAIN d}} |->
        IF p \in DOMAIN d THEN d[p]
        ELSE IF p[Len(p)] = "~" THEN project[SubSeq(p, Len(sub) + 1, Len(p) - 1)]
        ELSE project[slice_from(p, Len(sub))]]

\* the image loop of organize_epub_structure, from pattern i on
RECURSIVE copy_images(_, _)
copy_images(d, i) ==
    IF i > Len(image_patterns) THEN d
    ELSE copy_images(copy_if_absent(d, glob(image_patterns[i]), images_dir), i + 1)

\* organize_epub_structure() keeping a second copy of a document already organized
organize_duplicating(d) ==
    copy_images(
        copy_if_absent(
            copy_if_absent(
                copy_beside(d, glob(xhtml_pattern), text_dir),
                glob(css_pattern), styles_dir),
            glob(woff2_pattern), fonts_dir),
        1)

\* organize_epub_structure() replacing the documents and stylesheets already organized
organize_replacing(d) ==
    copy_images(
        copy_if_absent(
            copy_always(
                copy_always(d, glob(xhtml_pattern), text_dir),
                glob(css_pattern), styles_dir),
            glob(woff2_pattern), fonts_dir),
        1)

\* organize_epub_structure() putting the stylesheets with the documents
organize_misrouting(d) ==
    copy_images(
        copy_if_absent(
            copy_if_absent(
                copy_if_absent(d, glob(xhtml_pattern), text_dir),
                glob(css_pattern), text_dir),
            glob(woff2_pattern), fonts_dir),
        1)

\* organize_epub_structure() over the tree d: the tree it leaves
organize_epub_structure(d) ==
    copy_images(
        copy_if_absent(
            copy_if_absent(
                copy_if_absent(d, glob(xhtml_pattern), text_dir),
                glob(css_pattern), styles_dir),
            glob(woff2_pattern), fonts_dir),
        1)

\* the names organize_epub_structure copies from
organize_sources ==
    glob(xhtml_pattern) \cup glob(css_pattern) \cup glob(woff2_pattern)
        \cup UNION {glob(image_patterns[i]) : i \in DOMAIN image_patterns}

-----------------------------------------------------------------------------
(* The builder: the manifest document *)

\* the characters of file names and titles, in code point order
CodePoints ==
    <<" ","&","-",".","/","0","1","2","3","4","5","6","7","8","9","A",
      "B","C","D","E","F","G","H","I","J","K","L","M","N","O","P","Q",
      "R","S","T","U","V","W","X","Y","Z","_","a","b","c","d","e","f",
      "g","h","i","j","k","l","m","n","o","p","q","r","s","t","u","v",
      "w","x","y","z">>
ord(c) == CHOOSE i \in DOMAIN CodePoints : CodePoints[i] = c

Upper == 
    <<"A","B","C","D","E","F","G","H","I","J","K","L","M","N","O","P",
      "Q","R","S","T","U","V","W","X","Y","Z">>
Lower == 
    <<"a","b","c","d","e","f","g","h","i","j","k","l","m","n","o","p",
      "q","r","s","t","u","v","w","x","y","z">>
\* str.lower() on one character, then on a string
lower_char(c) ==
    IF \E i \in DOMAIN Upper : Upper[i] = c
    THEN Lower[CHOOSE i \in DOMAIN Upper : Upper[i] = c]
    ELSE c
lower(s) == [i \in DOMAIN s |-> lower_char(s[i])]

\* a < b for two str, as sorted() compares the names of one directory
RECURSIVE str_less(_, _)
str_less(a, b) ==
    IF b = <<>> THEN FALSE
    ELSE IF a = <<>> THEN TRUE
    ELSE IF Head(a) # Head(b) THEN ord(Head(a)) < ord(Head(b))
    ELSE str_less(Tail(a), Tail(b))

\* sorted(names)
RECURSIVE sorted(_)
sorted(names) ==
    IF names = {} THEN <<>>
    ELSE LET least == CHOOSE n \in names : \A m \in names \ {n} : str_less(n, m)
         IN <<least>> \o sorted(names \ {least})

reversed(seq) == [i \in DOMAIN seq |-> seq[Len(seq) + 1 - i]]

\* the orders in which a directory listing may hand out the names of a directory
Listings(names) == {sorted(names), reversed(sorted(names))}

\* str(n) for n >= 0
DigitChars == <<"0","1","2","3","4","5","6","7","8","9">>
RECURSIVE str(_)
str(n) ==
    IF n < 10 THEN <<DigitChars[n + 1]>>
    ELSE str(n \div 10) \o <<DigitChars[(n % 10) + 1]>>

\* f"{n:03d}"
RECURSIVE zero_pad(_, _)
zero_pad(s, width) == IF Len(s) >= width THEN s ELSE zero_pad(<<"0">> \o s, width)
format_03d(n) == zero_pad(str(n), 3)

text_id_prefix == <<"t","e","x","t">>
css_id_prefix  == <<"c","s","s">>
font_id_prefix == <<"f","o","n","t">>
img_id_prefix  == <<"i","m","g">>

\* the id of the i-th file (from 0) of each enumeration
text_id(i) == text_id_prefix \o format_03d(i + 1)
css_id(i)  == css_id_prefix \o str(i + 1)
font_id(i) == font_id_prefix \o str(i + 1)
\* image ids taken from the numbering of the stylesheets
img_id_unscoped(i) == css_id_prefix \o str(i + 1)
img_id(i)  == img_id_prefix \o str(i + 1)

\* Path.suffix: the name from its last dot on, empty without one
RECURSIVE suffix(_)
suffix(name) ==
    IF name = <<>> THEN <<>>
    ELSE IF \E k \in 2..Len(name) : name[k] = "." THEN suffix(Tail(name))
    ELSE IF Head(name) = "." THEN name
    ELSE <<>>

image_media_type(name) ==
    IF lower(suffix(name)) \in {<<".","j","p","g">>, <<".","j","p","e","g">>}
    THEN "image/jpeg" ELSE "image/png"

Item(id, href, media) == [id |-> id, href |-> href, media |-> media]

\* document items whose href leaves the directory out
text_items_bare(files) ==
    [i \in DOMAIN files |-> Item(text_id(i - 1), files[i], "application/xhtml+xml")]

\* the <item> elements of one enumeration
text_items(files) ==
    [i \in DOMAIN files |-> Item(text_id(i - 1), text_dir \o files[i], "application/xhtml+xml")]
css_items(files) ==
    [i \in DOMAIN files |-> Item(css_id(i - 1), styles_dir \o files[i], "text/css")]
font_items(files) ==
    [i \in DOMAIN files |-> Item(font_id(i - 1), fonts_dir \o files[i], "font/woff2")]
img_items(files) ==
    [i \in DOMAIN files |-> Item(img_id(i - 1), images_dir \o files[i], image_media_type(files[i]))]

\* text_files of generate_content_opf over the tree d
text_files(d) == sorted(glob_in(d, text_dir, xhtml_pattern))

\* a spine numbered from text000
spine_refs_zero_based(files) == [i \in DOMAIN files |-> text_id_prefix \o format_03d(i - 1)]
\* the <itemref> elements: one for each of text_files
spine_refs(files) == [i \in DOMAIN files |-> text_id(i - 1)]

\* the title generate_content_opf writes: book_info.get('title', 'Curls & Contemplation')
default_title == <<"C","u","r","l","s"," ","&"," ","C","o","n","t","e","m","p","l","a","t","i","o","n">>
title_written == IF book_title = <<>> THEN default_title ELSE book_title

\* the document is XML a parser accepts: the text written between the tags
\* has no bare "&" (the f-string escapes nothing)
well_formed == \A k \in DOMAIN title_written : title_written[k] # "&"

\* generate_content_opf over the tree d, the styles, fonts and images directories
\* listing their names as css_files, font_files and img_files
generate_content_opf(d, css_files, font_files, img_files) ==
    [manifest |-> text_items(text_files(d)) \o css_items(css_files)
                    \o font_items(font_files) \o img_items(img_files),
     spine |-> spine_refs(text_files(d)),
     opf |-> IF well_formed THEN "ok" ELSE "unreadable"]

-----------------------------------------------------------------------------
(* The builder: the archive *)

mimetype_name  == <<"m","i","m","e","t","y","p","e">>
container_name == <<"M","E","T","A","-","I","N","F","/","c","o","n","t","a","i","n","e","r",".","x","m","l">>
oebps_prefix   == <<"O","E","B","P","S","/">>

Entry(name, stored, content) == [name |-> name, stored |-> stored, content |-> content]

\* epub_zip.write(project_dir / 'mimetype', 'mimetype', compress_type=ZIP_STORED)
mimetype_entry == Entry(mimetype_name, TRUE, "application/epub+zip")
\* epub_zip.write(meta_inf_dir / 'container.xml', 'META-INF/container.xml')
container_entry == Entry(container_name, FALSE, "container.xml")

\* what a file under OEBPS holds
content_of(f) == IF f = content_opf_name THEN "content.opf" ELSE data[f]

\* the entries of the os.walk loop, its files coming in the order walk
oebps_entries(walk) ==
    [i \in DOMAIN walk |-> Entry(oebps_prefix \o walk[i], FALSE, content_of(walk[i]))]

\* the container descriptor written ahead of the marker
all_entries_container_first(walk) ==
    <<container_entry, mimetype_entry>> \o oebps_entries(walk)
\* every entry create_epub_package writes when nothing fails
all_entries(walk) == <<mimetype_entry, container_entry>> \o oebps_entries(walk)

\* create_epub_package(): fail = 0 when every write succeeds, k when writing
\* entry k raises.  The with block closes the archive on the way out of the
\* exception, the except clause logs it and returns None.
create_epub_package(walk, fail) ==
    IF fail = 0
    THEN [epub |-> [exists |-> TRUE, entries |-> all_entries(walk)], ret |-> "epub_file"]
    ELSE [epub |-> [exists |-> TRUE, entries |-> SubSeq(all_entries(walk), 1, fail - 1)],
          ret |-> "None"]

-----------------------------------------------------------------------------
(* The builder as a state machine *)

\* the project directories a behaviour starts from
Projects == {{}, {X2, X10}, {X10, CssA, CssB, Png}, Names}
\* book-map.yaml gives no title, or this one
PlainTitle == <<"C","u","r","l","s">>
Titles == {<<>>, PlainTitle}

\* a project directory EPUBFixer is built over; nothing is built yet
InitBuild ==
    /\ root = FALSE
    /\ opf = "missing"
    /\ disk = {}
    /\ manifest = <<>>
    /\ spine = <<>>
    /\ AuditorFresh
    /\ \E files \in Projects : project = [n \in files |-> "v1"]
    /\ data = NoFiles
    /\ book_title \in Titles
    /\ epub = NoArchive
    /\ pkg_ret = "none"
    /\ history = <<>>
    /\ rename_map = <<>>
    /\ book_files = <<>>
    /\ NormalizerIdle
    /\ CliIdle

\* one more builder operation may run: the bound is not reached and no audit has been made
MayRun == Len(history) < MaxOps /\ result = "none"

Ran(name) == history' = Append(history, name)

\* the author writes a content file of the project directory
WriteSource ==
    /\ MayRun
    /\ \E n \in Names, c \in Contents :
        /\ n \in DOMAIN project => project[n] # c
        /\ project' = [m \in DOMAIN project \cup {n} |-> IF m = n THEN c ELSE project[m]]
    /\ Ran("edit")
    /\ UNCHANGED <<tree, auditor, data, book_title, epub, pkg_ret, refs, normalizer, cli>>

\* the author removes a content file of the project directory
RemoveSource ==
    /\ MayRun
    /\ \E n \in DOMAIN project :
        project' = [m \in DOMAIN project \ {n} |-> project[m]]
    /\ Ran("edit")
    /\ UNCHANGED <<tree, auditor, data, book_title, epub, pkg_ret, refs, normalizer, cli>>

\* organize_epub_structure(), called on its own
Organize ==
    /\ MayRun
    /\ IF ~root /\ organize_sources # {}
       THEN \* shutil.copy2 into a directory that is not there
            /\ Ran("organize raised")
            /\ UNCHANGED <<disk, data>>
       ELSE /\ data' = organize_epub_structure(data)
            /\ disk' = DOMAIN data'
            /\ Ran("organize")
    /\ UNCHANGED <<root, opf, manifest, spine, auditor, project, book_title, epub,
                   pkg_ret, refs, normalizer, cli>>

\* create_content_opf(): the directories, organize_epub_structure(), then
\* generate_content_opf() over the tree it left
CreateContentOpfDone ==
    /\ data' = organize_epub_structure(data)
    /\ disk' = DOMAIN data'
    /\ \E css_files \in Listings(glob_in(data', styles_dir, css_pattern)),
          font_files \in Listings(glob_in(data', fonts_dir, woff2_pattern)),
          img_files \in Listings(glob_in(data', images_dir, <<>>)) :
       \E doc \in {generate_content_opf(data', css_files, font_files, img_files)} :
          /\ manifest' = doc.manifest
          /\ spine' = doc.spine
          /\ opf' = doc.opf
    /\ Ran("create_content_opf")

\* create_content_opf(), an exception being caught after the directories are made
CreateContentOpfCaught ==
    /\ Ran("create_content_opf failed")
    /\ UNCHANGED <<opf, disk, manifest, spine, data>>

CreateContentOpf ==
    /\ MayRun
    /\ root' = TRUE
    /\ CreateContentOpfDone \/ CreateContentOpfCaught
    /\ UNCHANGED <<auditor, project, book_title, epub, pkg_ret, refs, normalizer, cli>>

\* create_epub_package()
CreateEpubPackage ==
    /\ MayRun
    /\ \E walk \in Listings(os_walk) :
       \E fail \in 0..(Len(walk) + 2) :
       \E out \in {create_epub_package(walk, fail)} :
          /\ epub' = out.epub
          /\ pkg_ret' = out.ret
    /\ Ran("create_epub_package")
    /\ UNCHANGED <<tree, auditor, project, data, book_title, refs, normalizer, cli>>

NextBuild ==
    \/ WriteSource
    \/ RemoveSource
    \/ Organize
    \/ CreateContentOpf
    \/ CreateEpubPackage
    \/ Audit

SpecBuild == InitBuild /\ [][NextBuild]_vars

-----------------------------------------------------------------------------
(* What the claims on the builder speak of *)

LastOp == IF history = <<>> THEN "none" ELSE history[Len(history)]
\* the operations that ran organize_epub_structure() to its end
Organizing == {"organize", "create_content_opf"}
\* this step is a run of organize_epub_structure() to its end
OrganizeStep == history' # history /\ LastOp' \in Organizing

\* the typed subdirectory of a content file, by its extension
TypeDirOf(n) ==
    CASE endswith(n, xhtml_pattern) -> text_dir
      [] endswith(n, css_pattern) -> styles_dir
      [] endswith(n, woff2_pattern) -> fonts_dir
      [] \E i \in 1..3 : endswith(n, image_patterns[i]) -> images_dir
      [] OTHER -> <<>>
Recognized(n) == TypeDirOf(n) # <<>>

\* C11: a run of organize that follows a run of organize, the source
\* directory not having changed in between, leaves the tree as the first
\* run left it: the same files with the same content, none added
C11_OrganizeTwiceIsOnce ==
    [][(OrganizeStep /\ LastOp \in Organizing) => (data' = data /\ disk' = disk)]_vars

\* organize has run twice in a row over a source directory with content files
C11_Witness ==
    /\ data # NoFiles
    /\ \E k \in 1..(Len(history) - 1) :
        history[k] \in Organizing /\ history[k + 1] = "organize"

\* C12: a run of organize leaves every file that was under the tree before
\* it in place with the content it had, whatever the same-named source holds
C12_OrganizeNeverReplaces ==
    [][OrganizeStep => \A p \in DOMAIN data : p \in DOMAIN data' /\ data'[p] = data[p]]_vars

\* organize has just run over a source file whose organized copy holds
\* something else than the source does now
C12_Witness ==
    /\ LastOp = "organize"
    /\ \E n \in DOMAIN project :
        /\ Recognized(n)
        /\ TypeDirOf(n) \o n \in DOMAIN data
        /\ data[TypeDirOf(n) \o n] # project[n]

\* C13: after organize every recognized content file of the source
\* directory is under the typed subdirectory of its extension and under no
\* other typed subdirectory
C13_OrganizeRoutesByType ==
    LastOp \in Organizing =>
        \A n \in DOMAIN project :
            Recognized(n) =>
                \A sub \in TypedDirs : (sub \o n \in DOMAIN data) <=> (sub = TypeDirOf(n))

\* organize has just run over a source directory holding a file of every type
C13_Witness ==
    /\ LastOp \in Organizing
    /\ \A sub \in TypedDirs : \E n \in DOMAIN project : TypeDirOf(n) = sub

\* how far the pairwise comparison of generated ids goes
MaxFiles == 12

ItemIds == [k \in DOMAIN manifest |-> manifest[k].id]
\* the ids generate_content_opf gives to n files of each typed subdirectory
GeneratedIds(n) ==
    {text_id(i) : i \in 0..(n - 1)} \cup {css_id(i) : i \in 0..(n - 1)}
        \cup {font_id(i) : i \in 0..(n - 1)} \cup {img_id(i) : i \in 0..(n - 1)}

\* C14: the ids of the items of the manifest are pairwise distinct, and so
\* are the ids generated for MaxFiles files in each of the four directories
C14_ItemIdsDistinct ==
    /\ \A i, j \in DOMAIN manifest : i # j => manifest[i].id # manifest[j].id
    /\ Cardinality(GeneratedIds(MaxFiles)) = 4 * MaxFiles

\* a manifest written over two documents, two stylesheets, a font and an image
C14_Witness ==
    /\ LastOp = "create_content_opf"
    /\ Len(manifest) = 6

\* the typed subdirectory of an href
DirOf(href) == CHOOSE sub \in TypedDirs : startswith(href, sub)

\* C15: in a manifest just written, the items of each typed subdirectory
\* come in ascending order of file name, whatever order the directory
\* listing returned, so that the manifest depends on the set of names alone
C15_ManifestInSortOrder ==
    LastOp = "create_content_opf" =>
        \A i, j \in DOMAIN manifest :
            (i < j /\ DirOf(manifest[i].href) = DirOf(manifest[j].href))
                => str_less(manifest[i].href, manifest[j].href)

DocumentItems == SelectSeq(manifest, LAMBDA it : it.media = "application/xhtml+xml")

\* C16: the spine of a manifest just written is the sequence of the ids of
\* its document items, in manifest order, each once, and every idref is
\* the id of an item
C16_SpineIsDocumentItems ==
    LastOp = "create_content_opf" =>
        /\ spine = [k \in DOMAIN DocumentItems |-> DocumentItems[k].id]
        /\ \A k \in DOMAIN spine : \E i \in DOMAIN manifest : manifest[i].id = spine[k]
        /\ \A k, l \in DOMAIN spine : k # l => spine[k] # spine[l]

\* a manifest written over two documents and other files
C16_Witness ==
    /\ LastOp = "create_content_opf"
    /\ Len(spine) = 2
    /\ Len(manifest) > 2

\* C17: after organize and generate_content_opf every file under the typed
\* subdirectories is the href of a manifest item, and an audit of that
\* tree records no missing-file defect
C17_RoundTrip ==
    LastOp = "create_content_opf" =>
        /\ \A p \in DOMAIN data : \E i \in DOMAIN manifest : manifest[i].href = p
        /\ Done => IssuesOf("missing") = <<>>

\* the audit has run its checks over a tree just built from content files
C17_Witness ==
    /\ LastOp = "create_content_opf"
    /\ Returned
    /\ Cardinality(DOMAIN data) >= 4

EntryNames == [k \in DOMAIN epub.entries |-> epub.entries[k].name]

\* C18: an archive create_epub_package has just returned starts with the
\* entry mimetype, stored, holding application/epub+zip, then
\* META-INF/container.xml, then one entry for every file under OEBPS; in
\* any archive it wrote no OEBPS entry is among the first two
C18_ArchiveEntryOrder ==
    /\ (LastOp = "create_epub_package" /\ pkg_ret = "epub_file") =>
        /\ epub.exists
        /\ Len(epub.entries) = 2 + Cardinality(os_walk)
        /\ epub.entries[1] = [name |-> mimetype_name, stored |-> TRUE,
                              content |-> "application/epub+zip"]
        /\ epub.entries[2].name = container_name
        /\ {EntryNames[k] : k \in 3..Len(epub.entries)} = {oebps_prefix \o f : f \in os_walk}
    /\ \A k \in DOMAIN epub.entries :
        startswith(EntryNames[k], oebps_prefix) => k > 2

\* an archive just returned, holding the manifest document and content files
C18_Witness ==
    /\ LastOp = "create_epub_package"
    /\ pkg_ret = "epub_file"
    /\ Len(epub.entries) >= 5

\* C19: when create_epub_package fails on an entry the error is raised to
\* the caller and no archive is left at the path of the package
C19_PackagingFailureRaises ==
    (LastOp = "create_epub_package" /\ pkg_ret # "epub_file") =>
        /\ pkg_ret = "raised"
        /\ ~epub.exists

-----------------------------------------------------------------------------
(* normalize_filename *)

\* str.replace(old, new): every occurrence of old, left to right, none overlapping
RECURSIVE replace(_, _, _)
replace(s, old, new) ==
    IF Len(s) < Len(old) THEN s
    ELSE IF startswith(s, old) THEN new \o replace(slice_from(s, Len(old)), old, new)
    ELSE <<Head(s)>> \o replace(Tail(s), old, new)

\* re.sub('-+', '-', s)
RECURSIVE collapse_hyphens(_)
collapse_hyphens(s) ==
    IF Len(s) < 2 THEN s
    ELSE IF s[1] = "-" /\ s[2] = "-" THEN collapse_hyphens(Tail(s))
    ELSE <<Head(s)>> \o collapse_hyphens(Tail(s))

final_marker == <<"_","f","i","n","a","l">>
space == <<" ">>
hyphen == <<"-">>

\* the replacements for the known files, in the order the code applies them
specific_fixes == <<
    <<<<"c","o","n","t","i","n","u","e","d","l","e","a","r","n","i","n","g","c","o","m","m","i","t","m","e","n","t","-","2">>,
      <<"c","o","n","t","i","n","u","e","d","-","l","e","a","r","n","i","n","g","-","c","o","m","m","i","t","m","e","n","t">>>>,
    <<<<"a","f","f","i","r","m","a","t","i","o","n","s","c","l","o","s","e">>,
      <<"a","f","f","i","r","m","a","t","i","o","n","s","-","c","l","o","s","e">>>>,
    <<<<"s","e","l","f","c","a","r","e","j","o","u","r","n","a","l">>,
      <<"s","e","l","f","-","c","a","r","e","-","j","o","u","r","n","a","l">>>>,
    <<<<"j","o","u","r","n","a","l","p","a","g","e">>,
      <<"j","o","u","r","n","a","l","-","p","a","g","e">>>>,
    <<<<"p","r","o","f","e","s","s","i","o","n","a","l","d","e","v","e","l","o","p","m","e","n","t">>,
      <<"p","r","o","f","e","s","s","i","o","n","a","l","-","d","e","v","e","l","o","p","m","e","n","t">>>>,
    <<<<"a","f","f","i","r","m","a","t","i","o","n","o","d","y","s","s","e","y">>,
      <<"a","f","f","i","r","m","a","t","i","o","n","-","o","d","y","s","s","e","y">>>>>>

\* the specific fixes from the i-th on
RECURSIVE apply_fixes(_, _)
apply_fixes(name, i) ==
    IF i > Len(specific_fixes) THEN name
    ELSE apply_fixes(replace(name, specific_fixes[i][1], specific_fixes[i][2]), i + 1)

\* the marker removed after lower-casing
normalize_lower_first(filename) ==
    apply_fixes(
        collapse_hyphens(replace(replace(lower(filename), final_marker, <<>>), space, hyphen)),
        1)

\* normalize_filename(filename)
normalize_filename(filename) ==
    LET stripped == replace(filename, final_marker, <<>>)
        lowered == lower(stripped)
        hyphened == replace(lowered, space, hyphen)
        collapsed == collapse_hyphens(hyphened)
    IN apply_fixes(collapsed, 1)

\* the file names normalize_filename is given: a stem followed by a tail
Stems == {
    <<"M","y"," ","F","i","l","e">>,
    <<"A">>,
    <<"a"," ","-"," ","b">>,
    <<"S","e","l","f","C","a","r","e","J","o","u","r","n","a","l">>,
    <<"x","-","-","y">>,
    <<"C","o","n","t","i","n","u","e","d","L","e","a","r","n","i","n","g","C","o","m","m","i","t","m","e","n","t"," ","2">>,
    <<"j","o","u","r","n","a","l","p","a","g","e">>,
    <<"a","f","f","i","r","m","a","t","i","o","n","s","c","l","o","s","e">>,
    <<"P","r","o","f","e","s","s","i","o","n","a","l","D","e","v","e","l","o","p","m","e","n","t">>,
    <<"a","f","f","i","r","m","a","t","i","o","n"," ","o","d","y","s","s","e","y">>,
    <<"c","h","a","p","t","e","r"," ","1">>,
    <<"B"," "," ","B">>}
Tails == {
    <<".","x","h","t","m","l">>,
    <<"_","f","i","n","a","l",".","x","h","t","m","l">>,
    <<"_","F","I","N","A","L",".","x","h","t","m","l">>,
    <<"_","f","i","n","a","l","_","f","i","n","a","l",".","x","h","t","m","l">>,
    <<" ","_","f","i","n","a","l",".","x","h","t","m","l">>}
FileNames == {stem \o tail : stem \in Stems, tail \in Tails}

InitNorm ==
    /\ root = FALSE
    /\ opf = "missing"
    /\ disk = {}
    /\ manifest = <<>>
    /\ spine = <<>>
    /\ AuditorFresh
    /\ BuilderIdle
    /\ fname \in FileNames
    /\ norm = NotCalled
    /\ CliIdle

\* a call of normalize_filename(fname)
Normalize ==
    /\ norm = NotCalled
    /\ norm' = normalize_filename(fname)
    /\ UNCHANGED <<tree, auditor, builder, fname, cli>>

NextNorm == Normalize

SpecNorm == InitNorm /\ [][NextNorm]_vars

\* the five steps the claim names, each on its own
StripMarker(s) == replace(s, final_marker, <<>>)
SpacesToHyphens(s) == replace(s, space, hyphen)
\* no two hyphens side by side, the rest as it was
NoHyphenRun(s) == \A k \in 1..(Len(s) - 1) : ~(s[k] = "-" /\ s[k + 1] = "-")
ApplyTable(s) == apply_fixes(s, 1)

\* file names and what the five steps, taken in order by hand, make of them
Examples == {
    <<<<"M","y"," ","F","i","l","e","_","f","i","n","a","l",".","x","h","t","m","l">>,
      <<"m","y","-","f","i","l","e",".","x","h","t","m","l">>>>,
    <<<<"A","_","F","I","N","A","L",".","x","h","t","m","l">>,
      <<"a","_","f","i","n","a","l",".","x","h","t","m","l">>>>,
    <<<<"a"," ","-"," ","b",".","x","h","t","m","l">>,
      <<"a","-","b",".","x","h","t","m","l">>>>,
    <<<<"S","e","l","f","C","a","r","e","J","o","u","r","n","a","l","_","f","i","n","a","l",".","x","h","t","m","l">>,
      <<"s","e","l","f","-","c","a","r","e","-","j","o","u","r","n","a","l",".","x","h","t","m","l">>>>,
    <<<<"x","-","-","y",".","x","h","t","m","l">>,
      <<"x","-","y",".","x","h","t","m","l">>>>,
    <<<<"C","o","n","t","i","n","u","e","d","L","e","a","r","n","i","n","g","C","o","m","m","i","t","m","e","n","t"," ","2",".","x","h","t","m","l">>,
      <<"c","o","n","t","i","n","u","e","d","-","l","e","a","r","n","i","n","g","-","c","o","m","m","i","t","m","e","n","t",".","x","h","t","m","l">>>>}

\* C20: normalize_filename returns what the five steps give when applied in
\* the order marker, lower case, spaces, hyphen runs, table; the result has
\* no upper-case letter, no space and no run of hyphens; the worked
\* examples come out as computed by hand, My File_final.xhtml giving
\* my-file.xhtml
C20_NormalizeStepsInOrder ==
    norm # NotCalled =>
        /\ norm = ApplyTable(collapse_hyphens(SpacesToHyphens(lower(StripMarker(fname)))))
        /\ \A k \in DOMAIN norm : norm[k] # " " /\ lower_char(norm[k]) = norm[k]
        /\ NoHyphenRun(norm)
        /\ \A ex \in Examples : fname = ex[1] => norm = ex[2]

\* the claim's example has been normalized
C20_Witness ==
    /\ fname = <<"M","y"," ","F","i","l","e","_","f","i","n","a","l",".","x","h","t","m","l">>
    /\ norm = <<"m","y","-","f","i","l","e",".","x","h","t","m","l">>

\* C26: normalizing a name that normalize_filename returned gives that
\* name again, so a second pass renames nothing
C26_NormalizeIdempotent ==
    norm # NotCalled => normalize_filename(norm) = norm

\* C28: after a second call of audit() on the same auditor over the same
\* tree, the verdict and the issue list (which save_report writes out) are
\* those of a single call on a fresh auditor
C28_AuditRepeatable ==
    audits = 2 =>
        /\ result = audit(<<>>).result
        /\ issues = audit(<<>>).issues

\* C27: an audit of a tree that create_content_opf built from nothing
\* returns true: no missing file, no orphan, no spine and no
\* reading-order defect, whatever the source directory holds
C27_BuiltPackagePassesAudit ==
    (history = <<"create_content_opf">> /\ Done) =>
        /\ result = "true"
        /\ issues = <<>>

-----------------------------------------------------------------------------
(* The checker scripts run as __main__ *)

\* the chapter files the compliance checker may find
MaxChapters == 2

\* what check_chapter_file appends an issue for, in the order it checks
ChapterDefects ==
    <<"no chap-title section", "no content-area div", "quiz over 4 questions",
      "quiz with answers", "no closing image">>
\* facts of the compliance checker: <<c, "chapter">> when chapter file c is
\* there, <<c, d>> when it has defect d, <<c, "unreadable">> when reading it raises
ChapterFacts ==
    {<<"chapter">>, <<"unreadable">>} \cup {<<ChapterDefects[k]>> : k \in DOMAIN ChapterDefects}
AcissFacts ==
    {f \in SUBSET ((1..MaxChapters) \X {cf[1] : cf \in ChapterFacts}) :
        /\ \A c \in 2..MaxChapters : <<c, "chapter">> \in f => <<c - 1, "chapter">> \in f
        /\ \A x \in f : <<x[1], "chapter">> \in f}

\* check_chapter_file over chapter c: the issues it extends self.issues with
check_chapter_file(c) ==
    IF <<c, "unreadable">> \in facts
    THEN << <<c, "error processing">> >>
    ELSE [k \in 1..Cardinality({j \in DOMAIN ChapterDefects : <<c, ChapterDefects[j]>> \in facts}) |->
            <<c, SelectSeq(ChapterDefects, LAMBDA d : <<c, d>> \in facts)[k]>>]

\* the issues of the chapters from c on
RECURSIVE chapter_issues(_)
chapter_issues(c) ==
    IF <<c, "chapter">> \notin facts THEN <<>>
    ELSE check_chapter_file(c) \o chapter_issues(c + 1)

\* ACISSComplianceChecker.check_compliance()
check_compliance ==
    IF <<1, "chapter">> \notin facts
    THEN [issues |-> << <<0, "No chapter files found">> >>, success |-> FALSE]
    ELSE [issues |-> chapter_issues(1), success |-> chapter_issues(1) = <<>>]

\* what the platform checker appends to self.issues for, check by check
KdpIssues == <<"javascript files", "script tags", "media files">>
AppleIssues == <<"version not 3.0">>
EpubIssues == <<"missing metadata", "no xhtml namespace">>
CommonIssues == <<"empty spine">>
\* what it appends to self.warnings for
PlatformWarnings ==
    <<"large images", "large epub", "no accessibility features", "no woff2 fonts",
      "no cover image", "no table of contents">>
\* files it opens without a guard
NoContentOpf == "no content.opf"
NoSampleChapter == "no sample chapter"
PlatformFacts ==
    SUBSET ({KdpIssues[k] : k \in DOMAIN KdpIssues} \cup {AppleIssues[1], CommonIssues[1]}
            \cup {EpubIssues[k] : k \in DOMAIN EpubIssues}
            \cup {PlatformWarnings[k] : k \in DOMAIN PlatformWarnings}
            \cup {NoContentOpf, NoSampleChapter})

found(names) == SelectSeq(names, LAMBDA n : n \in facts)

\* PlatformGuidelinesChecker.check_all_platforms(): the four checks in order;
\* open() of a file that is not there raises out of the script
check_all_platforms ==
    IF NoContentOpf \in facts
    THEN [issues |-> found(KdpIssues), warnings |-> found(SubSeq(PlatformWarnings, 1, 2)),
          success |-> FALSE, raised |-> TRUE]
    ELSE IF NoSampleChapter \in facts
    THEN [issues |-> found(KdpIssues) \o found(AppleIssues),
          warnings |-> found(SubSeq(PlatformWarnings, 1, 2)),
          success |-> FALSE, raised |-> TRUE]
    ELSE [issues |-> found(KdpIssues) \o found(AppleIssues) \o found(EpubIssues)
                        \o found(CommonIssues),
          warnings |-> found(PlatformWarnings),
          success |-> found(KdpIssues) \o found(AppleIssues) \o found(EpubIssues)
                        \o found(CommonIssues) = <<>>,
          raised |-> FALSE]

\* the exit status of a script that reaches the end of __main__ without sys.exit
falls_off_the_end == 0
\* the exit status of a script an exception ends
uncaught_exception == 1

\* a script is started on a project
InitCli ==
    /\ script \in {"manifest_audit", "aciss_compliance", "platform_guidelines"}
    /\ facts \in CASE script = "aciss_compliance" -> AcissFacts
                   [] script = "platform_guidelines" -> PlatformFacts
                   [] OTHER -> {{}}
    /\ findings = NoFindings
    /\ exit_code = -1
    /\ IF script = "manifest_audit"
       THEN /\ root \in BOOLEAN
            /\ opf \in {"ok", "missing", "unreadable"}
            /\ disk \in Trees
            /\ manifest \in Manifests
            /\ spine \in {sp \in Spines : Len(sp) <= 1}
            /\ ~root => opf = "missing" /\ disk = {}
            /\ opf # "ok" => manifest = <<>> /\ spine = <<>>
       ELSE /\ root = FALSE
            /\ opf = "missing"
            /\ disk = {}
            /\ manifest = <<>>
            /\ spine = <<>>
    /\ AuditorFresh
    /\ BuilderIdle
    /\ NormalizerIdle

\* manifest_audit.py as __main__: audit(), save_report(), sys.exit(0) or sys.exit(1)
MainManifestAudit ==
    /\ script = "manifest_audit"
    /\ exit_code = -1
    /\ AuditCore
    /\ exit_code' = IF result' = "true" THEN 0
                    ELSE IF result' = "raised" THEN uncaught_exception
                    ELSE 1
    /\ UNCHANGED <<tree, builder, normalizer, script, facts, findings>>

\* aciss_compliance.py as __main__: check_compliance(), save_report(), two prints
MainAcissCompliance ==
    /\ script = "aciss_compliance"
    /\ exit_code = -1
    /\ \E out \in {check_compliance} :
        findings' = [issues |-> out.issues, warnings |-> <<>>]
    /\ exit_code' = falls_off_the_end
    /\ UNCHANGED <<tree, auditor, builder, normalizer, script, facts>>

\* platform_guidelines.py as __main__: check_all_platforms(), save_report(), two prints
MainPlatformGuidelines ==
    /\ script = "platform_guidelines"
    /\ exit_code = -1
    /\ \E out \in {check_all_platforms} :
        /\ findings' = [issues |-> out.issues, warnings |-> out.warnings]
        /\ exit_code' = IF out.raised THEN uncaught_exception ELSE falls_off_the_end
    /\ UNCHANGED <<tree, auditor, builder, normalizer, script, facts>>

NextCli == MainManifestAudit \/ MainAcissCompliance \/ MainPlatformGuidelines

SpecCli == InitCli /\ [][NextCli]_vars

\* the script run found a hard defect: for the audit anything that makes
\* audit() not return True, for the compliance checker a defective or
\* unreadable chapter or no chapter at all, for the platform checker
\* anything it files under issues or a file it needs that is not there
HardDefectFound ==
    CASE script = "manifest_audit" -> result # "true"
      [] script = "aciss_compliance" ->
            \/ <<1, "chapter">> \notin facts
            \/ \E x \in facts : x[2] # "chapter"
      [] script = "platform_guidelines" ->
            \E f \in facts : \A k \in DOMAIN PlatformWarnings : PlatformWarnings[k] # f
      [] OTHER -> FALSE

\* C25: a checker script that has exited gave status 0 exactly when it
\* found no hard defect
C25_ExitZeroIffNoHardDefect ==
    exit_code # -1 => (exit_code = 0 <=> ~HardDefectFound)

-----------------------------------------------------------------------------
(* Step 1 of the builder: renaming and reference patching *)

toc_name == <<"3","-","t","a","b","l","e","o","f","c","o","n","t","e","n","t","s",".","x","h","t","m","l">>
href_eq == <<"h","r","e","f","=">>
dq == <<"\"">>
sq == <<"'">>
\* f'href="{name}"' and f"href='{name}'"
href_dq(name) == href_eq \o dq \o name \o dq
href_sq(name) == href_eq \o sq \o name \o sq

\* the loop of update_toc_references over the items of rename_map from the i-th on
RECURSIVE update_links(_, _, _)
update_links(content, map, i) ==
    IF i > Len(map) THEN content
    ELSE update_links(
            replace(replace(content, href_dq(map[i][1]), href_dq(map[i][2])),
                    href_sq(map[i][1]), href_sq(map[i][2])),
            map, i + 1)

\* update_toc_references: the content it writes back to the file
update_toc_references(content, map) == update_links(content, map, 1)

\* the rename mapping built over xhtml_files, from the i-th file on
RECURSIVE create_rename_map(_, _)
create_rename_map(xhtml_files, i) ==
    IF i > Len(xhtml_files) THEN <<>>
    ELSE (IF normalize_filename(xhtml_files[i]) # xhtml_files[i]
          THEN << <<xhtml_files[i], normalize_filename(xhtml_files[i])>> >>
          ELSE <<>>) \o create_rename_map(xhtml_files, i + 1)

\* shutil.move(old_path, new_path) between two files of one directory: the
\* file takes the new name, replacing a file that has it
move(proj, old, new) ==
    [n \in (DOMAIN proj \ {old}) \cup {new} |-> IF n = new THEN proj[old] ELSE proj[n]]

\* the rename loop over the items of rename_map from the i-th on
RECURSIVE rename_files(_, _, _)
rename_files(proj, map, i) ==
    IF i > Len(map) THEN proj
    ELSE IF map[i][1] \in DOMAIN proj
    THEN rename_files(move(proj, map[i][1], map[i][2]), map, i + 1)
    ELSE rename_files(proj, map, i + 1)

\* old_name in rename_map, and rename_map[old_name]
in_map(map, name) == \E k \in DOMAIN map : map[k][1] = name
lookup(map, name) == map[CHOOSE k \in DOMAIN map : map[k][1] = name][2]

oebps_text_prefix == <<"O","E","B","P","S","/","t","e","x","t","/">>
\* update_book_map_references: the files section it dumps back
update_book_map_references(files, map) ==
    [k \in DOMAIN files |->
        [input |-> IF in_map(map, files[k].input)
                   THEN lookup(map, files[k].input) ELSE files[k].input,
         output |-> IF in_map(map, basename(files[k].output))
                    THEN oebps_text_prefix \o lookup(map, basename(files[k].output))
                    ELSE files[k].output]]

\* rename_files_and_update_references(), glob handing out xhtml_files in this order
rename_files_and_update_references(xhtml_files) ==
    LET map == create_rename_map(xhtml_files, 1)
        renamed == rename_files(project, map, 1)
    IN [rename_map |-> map,
        project |-> IF toc_name \in DOMAIN renamed
                    THEN [renamed EXCEPT ![toc_name] = update_toc_references(@, map)]
                    ELSE renamed,
        book_files |-> update_book_map_references(book_files, map)]

\* the calls of one behaviour
MaxPasses == 2

\* documents of the project directory the pass is run on
Upper1 == <<"A","_","F","I","N","A","L",".","x","h","t","m","l">>
Upper2 == <<"a","_","f","i","n","a","l",".","x","h","t","m","l">>
Spaced1 == <<"M","y"," ","F","i","l","e",".","x","h","t","m","l">>
Spaced2 == <<"m","y"," ","f","i","l","e",".","x","h","t","m","l">>
Plain == <<"a",".","x","h","t","m","l">>
fragment == <<"#","s">>
src_dq(name) == <<"s","r","c","=">> \o dq \o name \o dq
Body(name) == <<"<","p",">">> \o name
\* the attributes a table of contents is made of, and the tables of contents
LinkTargets == {Upper1, Upper2, Spaced1}
Attributes ==
    {href_dq(t) : t \in LinkTargets} \cup {href_sq(t) : t \in LinkTargets}
        \cup {href_dq(t \o fragment) : t \in LinkTargets} \cup {src_dq(Spaced1)}
TocDocs == Attributes \cup {a \o <<" ">> \o b : a, b \in Attributes}
RenameFileSets ==
    {{}, {Spaced1}, {Spaced1, Spaced2}, {Upper1, Upper2}, {Upper1, Upper2, Plain},
     {Spaced1, Plain}}
BookMaps == {<<>>, <<[input |-> Spaced1, output |-> <<"o","u","t","/">> \o Spaced1]>>}

InitRename ==
    /\ root = FALSE
    /\ opf = "missing"
    /\ disk = {}
    /\ manifest = <<>>
    /\ spine = <<>>
    /\ AuditorFresh
    /\ \E files \in RenameFileSets, tocs \in SUBSET {toc_name} :
        \E toc \in TocDocs, plain \in {Body(Plain), href_dq(Spaced1)} :
            /\ tocs = {} => toc = href_dq(Upper1)
            /\ Plain \notin files => plain = Body(Plain)
            /\ project = [n \in files \cup tocs |->
                            IF n = toc_name THEN toc
                            ELSE IF n = Plain THEN plain
                            ELSE Body(n)]
    /\ data = NoFiles
    /\ book_title = <<>>
    /\ epub = NoArchive
    /\ pkg_ret = "none"
    /\ history = <<>>
    /\ rename_map = <<>>
    /\ book_files \in BookMaps
    /\ NormalizerIdle
    /\ CliIdle

\* rename_files_and_update_references()
RenamePass ==
    /\ Len(history) < MaxPasses
    /\ \E xhtml_files \in Listings(glob(xhtml_pattern)) :
       \E out \in {rename_files_and_update_references(xhtml_files)} :
          /\ project' = out.project
          /\ rename_map' = out.rename_map
          /\ book_files' = out.book_files
    /\ Ran("rename")
    /\ UNCHANGED <<tree, auditor, data, book_title, epub, pkg_ret, normalizer, cli>>

\* update_toc_references(toc_file, rename_map) with the mapping at hand
UpdateTocReferences ==
    /\ Len(history) < MaxPasses
    /\ toc_name \in DOMAIN project
    /\ project' = [project EXCEPT ![toc_name] = update_toc_references(@, rename_map)]
    /\ Ran("update_toc_references")
    /\ UNCHANGED <<tree, auditor, data, book_title, epub, pkg_ret, refs, normalizer, cli>>

NextRename == RenamePass \/ UpdateTocReferences

SpecRename == InitRename /\ [][NextRename]_vars

-----------------------------------------------------------------------------
(* Claims about renaming and reference patching *)

RenameStep == history' # history /\ LastOp' = "rename"
PatchAgainStep == history' # history /\ LastOp' = "update_toc_references"

\* content starts with a reference to name: href=, a quote, the name, and
\* then the same quote or the start of a fragment
RefersInQuote(content, name, q) ==
    /\ startswith(content, href_eq \o q \o name)
    /\ \/ startswith(slice_from(content, Len(href_eq \o q \o name)), q)
       \/ startswith(slice_from(content, Len(href_eq \o q \o name)), <<"#">>)
RefersAtStart(content, name) ==
    RefersInQuote(content, name, dq) \/ RefersInQuote(content, name, sq)
\* content refers to name somewhere
Refers(content, name) ==
    \E p \in 1..Len(content) : RefersAtStart(SubSeq(content, p, Len(content)), name)

\* content starts with href= and the quoted name, in double or single quotes
QuotesAtStart(content, name) ==
    startswith(content, href_dq(name)) \/ startswith(content, href_sq(name))

\* content with every reference to an old name of map rewritten to that old
\* name's own new name, and nothing else changed
RECURSIVE Repointed(_, _)
Repointed(content, map) ==
    IF content = <<>> THEN <<>>
    ELSE IF \E k \in DOMAIN map : QuotesAtStart(content, map[k][1])
    THEN LET k == CHOOSE k \in DOMAIN map : QuotesAtStart(content, map[k][1])
             q == << content[Len(href_eq) + 1] >>
         IN href_eq \o q \o map[k][2]
                \o Repointed(slice_from(content, Len(href_eq \o q \o map[k][1])), map)
    ELSE << Head(content) >> \o Repointed(Tail(content), map)

\* C21: a rename pass leaves in the table of contents exactly the document
\* it found there with every href reference to an old name, double- or
\* single-quoted, rewritten to that old name's own new name, and every other
\* part unchanged
C21_PatchCompleteAndExact ==
    [][(RenameStep /\ toc_name \in DOMAIN project /\ toc_name \in DOMAIN project')
        => project'[toc_name] = Repointed(project[toc_name], rename_map')]_vars

\* C22: applying to an already patched table of contents the same mapping a
\* second time leaves it unchanged, for every mapping the normalization pass
\* produces, the empty one included
C22_PatchIdempotent ==
    [][(PatchAgainStep /\ history = <<"rename">>)
        => project'[toc_name] = project[toc_name]]_vars

\* C23: when two files that are both there normalize to the same name, the
\* one that is renamed first keeps that name with its own content
C23_FirstWins ==
    [][RenameStep =>
        \A i, j \in DOMAIN rename_map' :
            (/\ i < j
             /\ rename_map'[i][2] = rename_map'[j][2]
             /\ rename_map'[i][1] \in DOMAIN project
             /\ rename_map'[j][1] \in DOMAIN project
             /\ rename_map'[i][2] \in DOMAIN project')
            => project'[rename_map'[i][2]] = project[rename_map'[i][1]]]_vars

\* C24: after a rename pass no document of the project and no entry of the
\* book map refers by its old name to a file the pass has renamed away
C24_NoStaleReference ==
    (history # <<>> /\ LastOp = "rename") =>
        \A k \in DOMAIN rename_map :
            rename_map[k][1] \notin DOMAIN project =>
                /\ \A n \in DOMAIN project : ~Refers(project[n], rename_map[k][1])
                /\ \A e \in DOMAIN book_files :
                    /\ book_files[e].input # rename_map[k][1]
                    /\ basename(book_files[e].output) # rename_map[k][1]

-----------------------------------------------------------------------------
(* run_all_fixes: the six steps of one build, and builds that follow one another *)

\* the builds and the changes of the author of one behaviour
MaxRuns == 2
MaxEdits == 2

\* a document with a paragraph closed in its start tag, the same once
\* fix_single_xhtml_file has opened it, and a document steps 2 to 4 leave alone
SelfClosed == <<"<","p"," ","a","/",">">>
Reopened == <<"<","p"," ","a",">","<","/","p",">">>
Edited == <<"<","p",">","v","2","<","/","p",">">>
RunContents == {SelfClosed, Edited}
RunNames == {X2, Upper2, CssA}
RunProjects == {{X2}, {X2, Upper2}, {Upper2, CssA}, {X2, Upper2, Plain}}

\* steps 2 to 4 on the content of one document: of their rewrites the one
\* that applies to these documents is <p .../> to <p ...></p>
fix_single_xhtml_file(content) == replace(content, SelfClosed, Reopened)

\* fix_xhtml_markup, fix_css_and_asset_links and populate_quizzes: each goes
\* over glob('*.xhtml') and writes back the documents it changed
fix_xhtml_files ==
    [n \in DOMAIN project |->
        IF n \in glob(xhtml_pattern) THEN fix_single_xhtml_file(project[n]) ELSE project[n]]

InitRun ==
    /\ root = FALSE
    /\ opf = "missing"
    /\ disk = {}
    /\ manifest = <<>>
    /\ spine = <<>>
    /\ AuditorFresh
    /\ \E files \in RunProjects, c \in RunContents : project = [n \in files |-> c]
    /\ data = NoFiles
    /\ book_title \in Titles
    /\ epub = NoArchive
    /\ pkg_ret = "none"
    /\ history = <<>>
    /\ rename_map = <<>>
    /\ book_files = <<>>
    /\ NormalizerIdle
    /\ CliIdle

\* what ends a call of run_all_fixes
RunEnds == {"run_all_fixes", "run_all_fixes raised"}
\* no call of run_all_fixes is under way
Idle == history = <<>> \/ LastOp \in RunEnds \cup {"edit"}
RunsStarted == Cardinality({k \in DOMAIN history : history[k] \in {"rename", "run_all_fixes raised"}})
Edits == Cardinality({k \in DOMAIN history : history[k] = "edit"})
MayEdit == Idle /\ Edits < MaxEdits /\ RunsStarted < MaxRuns

\* between two builds the author writes a file of the project directory
AuthorWrites ==
    /\ MayEdit
    /\ \E n \in RunNames, c \in RunContents :
        /\ n \in DOMAIN project => project[n] # c
        /\ project' = [m \in DOMAIN project \cup {n} |-> IF m = n THEN c ELSE project[m]]
    /\ Ran("edit")
    /\ UNCHANGED <<tree, auditor, data, book_title, epub, pkg_ret, refs, normalizer, cli>>

\* between two builds the author removes a file of the project directory
AuthorRemoves ==
    /\ MayEdit
    /\ \E n \in DOMAIN project :
        project' = [m \in DOMAIN project \ {n} |-> project[m]]
    /\ Ran("edit")
    /\ UNCHANGED <<tree, auditor, data, book_title, epub, pkg_ret, refs, normalizer, cli>>

\* run_all_fixes, step 1
RunRename ==
    /\ Idle
    /\ RunsStarted < MaxRuns
    /\ \E xhtml_files \in Listings(glob(xhtml_pattern)) :
       \E out \in {rename_files_and_update_references(xhtml_files)} :
          /\ project' = out.project
          /\ rename_map' = out.rename_map
          /\ book_files' = out.book_files
    /\ Ran("rename")
    /\ UNCHANGED <<tree, auditor, data, book_title, epub, pkg_ret, normalizer, cli>>

\* run_all_fixes, step 1 raising at its first shutil.move: the except clause
\* of run_all_fixes returns None
RunRenameRaised ==
    /\ Idle
    /\ RunsStarted < MaxRuns
    /\ \E xhtml_files \in Listings(glob(xhtml_pattern)) :
          create_rename_map(xhtml_files, 1) # <<>>
    /\ pkg_ret' = "None"
    /\ Ran("run_all_fixes raised")
    /\ UNCHANGED <<tree, auditor, project, data, book_title, epub, refs, normalizer, cli>>

\* run_all_fixes, steps 2 to 4
RunFixes ==
    /\ LastOp = "rename"
    /\ project' = fix_xhtml_files
    /\ Ran("fix")
    /\ UNCHANGED <<tree, auditor, data, book_title, epub, pkg_ret, refs, normalizer, cli>>

\* create_content_opf(), generate_content_opf raising after
\* organize_epub_structure has run: book-map.yaml is an empty document,
\* yaml.safe_load gives None and book_map.get raises
GenerateContentOpfRaised ==
    /\ data' = organize_epub_structure(data)
    /\ disk' = DOMAIN data'
    /\ Ran("generate_content_opf raised")
    /\ UNCHANGED <<opf, manifest, spine>>

\* how step 5 has ended
Step5Ends == {"create_content_opf", "create_content_opf failed", "generate_content_opf raised"}

\* run_all_fixes, step 5: create_content_opf() returns whatever happened in it
RunCreateContentOpf ==
    /\ LastOp = "fix"
    /\ root' = TRUE
    /\ CreateContentOpfDone \/ CreateContentOpfCaught \/ GenerateContentOpfRaised
    /\ UNCHANGED <<auditor, project, book_title, epub, pkg_ret, refs, normalizer, cli>>

\* run_all_fixes, step 6 and the return of what create_epub_package gave
RunCreateEpubPackage ==
    /\ LastOp \in Step5Ends
    /\ \E walk \in Listings(os_walk) :
       \E fail \in 0..(Len(walk) + 2) :
       \E out \in {create_epub_package(walk, fail)} :
          /\ epub' = out.epub
          /\ pkg_ret' = out.ret
    /\ Ran("run_all_fixes")
    /\ UNCHANGED <<tree, auditor, project, data, book_title, refs, normalizer, cli>>

NextRun ==
    \/ AuthorWrites
    \/ AuthorRemoves
    \/ RunRename
    \/ RunRenameRaised
    \/ RunFixes
    \/ RunCreateContentOpf
    \/ RunCreateEpubPackage

SpecRun == InitRun /\ [][NextRun]_vars

-----------------------------------------------------------------------------
(* Claims about run_all_fixes *)

\* run_all_fixes has just returned, after its step 6
RunReturned == history # <<>> /\ LastOp = "run_all_fixes"
\* how step 5 of the build that has just returned ended
Step5OfRun == history[Len(history) - 1]
\* the archive holds the manifest document
ArchiveHoldsOpf ==
    \E k \in DOMAIN epub.entries : epub.entries[k].name = oebps_prefix \o content_opf_name

\* C29: a build that returns the path of the archive is a complete one: its
\* manifest step wrote content.opf in this build, and the archive holds it
C29_ArchiveOnlyForCompleteBuild ==
    (RunReturned /\ pkg_ret = "epub_file") =>
        /\ Step5OfRun = "create_content_opf"
        /\ ArchiveHoldsOpf

\* the documents OEBPS/text holds
TextNames == glob_in(data, text_dir, xhtml_pattern)
\* the source files the manifest lists as documents
ListedDocuments ==
    {slice_from(DocumentItems[k].href, Len(text_dir)) : k \in DOMAIN DocumentItems}

\* C30: after a build that went through all its steps, OEBPS/text holds
\* exactly the *.xhtml files the source directory holds now, each with the
\* content of its source, and the manifest lists no document that is not
\* in the source
C30_TextMirrorsSource ==
    (RunReturned /\ Step5OfRun = "create_content_opf") =>
        /\ TextNames = glob(xhtml_pattern)
        /\ \A n \in TextNames \cap glob(xhtml_pattern) : data[text_dir \o n] = project[n]
        /\ ListedDocuments \subseteq glob(xhtml_pattern)

====
